---- MODULE Spec2Model ----
(***************************************************************************)
(* Field validation and rejection engine of lambda_pandas_scrub.           *)
(*                                                                         *)
(* A table is a pandas DataFrame loaded with dtype=str: an ordered index   *)
(* of row identifiers, an ordered list of column names and one cell per    *)
(* (row, column).  A cell is a string, written as a sequence of one        *)
(* character strings, or the null value NaN.                               *)
(***************************************************************************)
EXTENDS Integers, Sequences, FiniteSets, TLC

(***************************************************************************)
(* Bounds of the model.                                                    *)
(***************************************************************************)
\* number of rows of the chunk
MaxRows == 2
\* number of cells of the chunk that differ from the all-valid base row
MaxEdits == 2

(***************************************************************************)
(* Cell values and the string methods of the pandas .str accessor.         *)
(***************************************************************************)
Null == <<"NaN">>

IsNull(v) == v = Null

NotNull(v) == v # Null

Digits == {"0", "1", "2", "3", "4", "5", "6", "7", "8", "9"}

LowerSeq == <<"a", "b", "c", "d", "e", "f", "g", "h", "i", "j", "k", "l", "m",
              "n", "o", "p", "q", "r", "s", "t", "u", "v", "w", "x", "y", "z">>

UpperSeq == <<"A", "B", "C", "D", "E", "F", "G", "H", "I", "J", "K", "L", "M",
              "N", "O", "P", "Q", "R", "S", "T", "U", "V", "W", "X", "Y", "Z">>

LowerLetters == {LowerSeq[i] : i \in 1..26}

UpperLetters == {UpperSeq[i] : i \in 1..26}

Letters == LowerLetters \cup UpperLetters

AlphaNum == Letters \cup Digits

\* character for character lower-casing (str.lower)
LowerChar(c) ==
    IF c \in UpperLetters
    THEN LowerSeq[CHOOSE i \in 1..26 : UpperSeq[i] = c]
    ELSE c

\* character for character upper-casing (str.upper)
UpperChar(c) ==
    IF c \in LowerLetters
    THEN UpperSeq[CHOOSE i \in 1..26 : LowerSeq[i] = c]
    ELSE c

StrLower(s) == [i \in 1..Len(s) |-> LowerChar(s[i])]

\* str.isdigit: non-empty and every character a digit
IsDigit(s) == Len(s) > 0 /\ \A i \in 1..Len(s) : s[i] \in Digits

\* str.slice(0, n)
Slice0(s, n) == SubSeq(s, 1, IF Len(s) < n THEN Len(s) ELSE n)

\* str.title: the first letter of every run of letters is upper-cased, the
\* other letters of the run are lower-cased, every other character is kept
StrTitle(s) ==
    [i \in 1..Len(s) |->
        IF s[i] \in Letters
        THEN IF i = 1 \/ s[i - 1] \notin Letters
             THEN UpperChar(s[i])
             ELSE LowerChar(s[i])
        ELSE s[i]]

\* first position at or after i whose character is not in class (Len(s)+1 if
\* the run reaches the end of s): the greedy match of class* from i
RunEnd(s, i, class) ==
    IF \E j \in i..Len(s) : s[j] \notin class
    THEN CHOOSE j \in i..Len(s) :
            /\ s[j] \notin class
            /\ \A k \in i..(j - 1) : s[k] \in class
    ELSE Len(s) + 1

CharAt(s, i) == IF i \in 1..Len(s) THEN s[i] ELSE "END"

(***************************************************************************)
(* MY_REGX: the compiled patterns, each as the set of strings re.match     *)
(* accepts.  Cells are trimmed of white space at load time, so no string   *)
(* ends in a newline and $ stands for the end of the string.               *)
(***************************************************************************)
\* TWO_LETTERS  ^[a-z]{2}$  (re.I)
MatchTwoLetters(s) == Len(s) = 2 /\ s[1] \in Letters /\ s[2] \in Letters

\* IUCR  ^[a-z\d]{4}$  (re.I)
MatchIucr(s) == Len(s) = 4 /\ \A i \in 1..4 : s[i] \in AlphaNum

\* ZIP_CODES  ^\d{5}|\d{4}$ : the alternation binds loosest, so the pattern is
\* (^\d{5}) or (\d{4}$); matched from the start of the string this is either
\* five leading digits with anything after them, or exactly four digits
MatchZipCodes(s) ==
    \/ Len(s) >= 5 /\ \A i \in 1..5 : s[i] \in Digits
    \/ Len(s) = 4 /\ \A i \in 1..4 : s[i] \in Digits

\* ^(?:[class]{1,maxLen}(?: |$)){1,maxWords}$ : one to maxWords words of one
\* to maxLen characters of class, each followed by one space or by the end
MatchWords(s, class, maxLen, maxWords) ==
    LET n == Len(s)
        starts == {i \in 1..n : s[i] # " " /\ (i = 1 \/ s[i - 1] = " ")}
    IN  /\ n > 0
        /\ s[1] # " "
        /\ \A i \in 1..n : s[i] \in class \cup {" "}
        /\ \A i \in 1..(n - 1) : ~(s[i] = " " /\ s[i + 1] = " ")
        /\ \A i \in starts : RunEnd(s, i, class) - i <= maxLen
        /\ Cardinality(starts) <= maxWords

PrimaryTypeClass == Letters \cup {"-"}

DescriptionClass == AlphaNum \cup {"-", "/", ":", ",", ".", "(", ")", "$", "}"}

LocationDescriptionClass == Letters \cup {"-", "/", ".", ",", "(", ")"}

\* PRIMARY_TYPE  ^(?:[a-z\-]{1,20}(?: |$)){1,5}$  (re.I)
MatchPrimaryType(s) == MatchWords(s, PrimaryTypeClass, 20, 5)

\* DESCRIPTION  ^(?:[a-z\-\/\:\,\.\(\)\d\$}]{1,25}(?: |$)){1,7}$  (re.I)
MatchDescription(s) == MatchWords(s, DescriptionClass, 25, 7)

\* LOCATION_DESCRIPTION  ^(?:[a-z\-\/\.\,\(\)]{1,20}(?: |$)){1,7}$  (re.I)
MatchLocationDescription(s) == MatchWords(s, LocationDescriptionClass, 20, 7)

\* LOCATION  ^\((-?\d+\.\d+), ?(-?\d+\.\d+)\)$ : the positions the match
\* passes through; every quantifier is followed by a character outside its
\* class, so the match is unique.  A number -?\d+\.\d+ starting at i ends
\* before NumberEnd(s, i), which is 0 when there is no number at i.
NumberEnd(s, i) ==
    LET a == IF CharAt(s, i) = "-" THEN i + 1 ELSE i
        b == RunEnd(s, a, Digits)
        c == RunEnd(s, b + 1, Digits)
    IN  IF a <= Len(s) /\ b > a /\ CharAt(s, b) = "." /\ c > b + 1
        THEN c
        ELSE 0

LocationGroups(s) ==
    LET e1 == NumberEnd(s, 2)
        s2 == IF CharAt(s, e1 + 1) = " " THEN e1 + 2 ELSE e1 + 1
        e2 == NumberEnd(s, s2)
    IN  IF /\ CharAt(s, 1) = "("
           /\ e1 > 0
           /\ CharAt(s, e1) = ","
           /\ e2 > 0
           /\ CharAt(s, e2) = ")"
           /\ e2 = Len(s)
        THEN <<SubSeq(s, 2, e1 - 1), SubSeq(s, s2, e2 - 1)>>
        ELSE <<>>

MatchLocation(s) == LocationGroups(s) # <<>>

\* BLOCK  ^(\d{1,4}X{1,4}) ((?:[a-z\d] ?){1,20}){1,5}$  (re.I) : one to four
\* digits, one to four X, a space, then 1..100 units of one alphanumeric
\* character and an optional space.  Group 2 is the LAST repetition of the
\* outer group: the greedy inner repetition takes 20 units at a time, so the
\* last repetition holds the final ((n - 1) % 20) + 1 units.
BlockGroups(s) ==
    LET d == RunEnd(s, 1, Digits)
        x == RunEnd(s, d, {"X", "x"})
        n == Len(s)
        units == {i \in (x + 1)..n : s[i] \in AlphaNum}
        k == Cardinality(units)
        last == ((k - 1) % 20) + 1
        from == CHOOSE i \in units :
                    Cardinality({j \in units : j >= i}) = last
    IN  IF /\ d - 1 \in 1..4
           /\ x - d \in 1..4
           /\ CharAt(s, x) = " "
           /\ CharAt(s, x + 1) \in AlphaNum
           /\ \A i \in (x + 1)..n : s[i] \in AlphaNum \cup {" "}
           /\ \A i \in (x + 1)..(n - 1) : ~(s[i] = " " /\ s[i + 1] = " ")
           /\ k \in 1..100
        THEN <<SubSeq(s, 1, x - 1), SubSeq(s, from, n)>>
        ELSE <<>>

MatchBlock(s) == BlockGroups(s) # <<>>

\* Series.str.extract(pattern, expand=True): one output per capture group,
\* NaN in every output where the value is null or the pattern does not match
StrExtract2(groups, v) ==
    IF IsNull(v) \/ groups = <<>> THEN <<Null, Null>> ELSE groups

(***************************************************************************)
(* Dates.  A parsed date (datetime64) is the tag "datetime64" followed by  *)
(* the characters of YYYY-MM-DD; NaT is the null value.                    *)
(***************************************************************************)
IsDatetime(v) == Len(v) = 11 /\ v[1] = "datetime64"

\* MM/DD/YYYY with a month 01..12 and a day 01..31
IsDateString(s) ==
    /\ Len(s) = 10
    /\ s[3] = "/" /\ s[6] = "/"
    /\ \A i \in {1, 2, 4, 5, 7, 8, 9, 10} : s[i] \in Digits
    /\ \/ s[1] = "0" /\ s[2] # "0"
       \/ s[1] = "1" /\ s[2] \in {"0", "1", "2"}
    /\ \/ s[4] = "0" /\ s[5] # "0"
       \/ s[4] \in {"1", "2"}
       \/ s[4] = "3" /\ s[5] \in {"0", "1"}

\* pd.to_datetime(series, errors='coerce') on one value
ToDatetime(v) ==
    IF IsNull(v) THEN Null
    ELSE IF IsDatetime(v) THEN v
    ELSE IF IsDateString(v)
         THEN <<"datetime64", v[7], v[8], v[9], v[10], "-",
                v[1], v[2], "-", v[4], v[5]>>
         ELSE Null

\* str(int(digits)) for a two digit field: the leading zero is not printed
IntStr2(a, b) == IF a = "0" THEN <<b>> ELSE <<a, b>>

\* dates.dt.year.astype(str) and dates.dt.month.astype(str) at one row.  The
\* .dt fields of a series holding a NaT are float64, so every row prints as
\* a float ("2019.0") and the NaT rows print as "nan".
DtYearStr(v, anyNaT) ==
    IF IsNull(v) THEN <<"n", "a", "n">>
    ELSE IF anyNaT THEN <<v[2], v[3], v[4], v[5], ".", "0">>
    ELSE <<v[2], v[3], v[4], v[5]>>

DtMonthStr(v, anyNaT) ==
    IF IsNull(v) THEN <<"n", "a", "n">>
    ELSE IF anyNaT THEN IntStr2(v[7], v[8]) \o <<".", "0">>
    ELSE IntStr2(v[7], v[8])

(***************************************************************************)
(* Tables (DataFrame): index is the ordered list of row identifiers,       *)
(* columns the ordered list of column names, data the cells.               *)
(***************************************************************************)
Range(seq) == {seq[i] : i \in 1..Len(seq)}

IndexSet(t) == Range(t.index)

HasCol(t, c) == c \in Range(t.columns)

\* the value a column holds at a row; a column the table does not have holds
\* no value at any row
Cell(t, r, c) == IF HasCol(t, c) THEN t.data[r][c] ELSE Null

\* the function f with every value computed: function constructors are
\* evaluated on demand, and a table is kept fully evaluated
RECURSIVE Computed(_, _)
Computed(f, dom) ==
    IF dom = {} THEN [x \in {} |-> Null]
    ELSE LET x == CHOOSE y \in dom : TRUE
         IN  (x :> f[x]) @@ Computed(f, dom \ {x})

\* df[c] = vals : overwrite column c, or append it as the last column
SetColumn(t, c, vals) ==
    [index |-> t.index,
     columns |-> IF HasCol(t, c) THEN t.columns ELSE Append(t.columns, c),
     data |-> Computed([r \in IndexSet(t) |->
                           IF HasCol(t, c)
                           THEN [t.data[r] EXCEPT ![c] = vals[r]]
                           ELSE t.data[r] @@ (c :> vals[r])],
                       IndexSet(t))]

\* df.drop(columns=[c], inplace=True)
DropColumn(t, c) ==
    [index |-> t.index,
     columns |-> SelectSeq(t.columns, LAMBDA k : k # c),
     data |-> Computed([r \in IndexSet(t) |->
                           Computed([k \in Range(t.columns) \ {c} |->
                                        t.data[r][k]],
                                    Range(t.columns) \ {c})],
                       IndexSet(t))]

\* DropRows with the negation lost: df.loc[df.index.isin(ids)]
DropRows_kept(t, ids) ==
    [index |-> SelectSeq(t.index, LAMBDA r : r \in ids),
     columns |-> t.columns,
     data |-> Computed([r \in IndexSet(t) \cap ids |-> t.data[r]],
                       IndexSet(t) \cap ids)]

\* df.loc[~df.index.isin(ids)] : the rows keep their identifiers and order
DropRows(t, ids) ==
    [index |-> SelectSeq(t.index, LAMBDA r : r \notin ids),
     columns |-> t.columns,
     data |-> Computed([r \in IndexSet(t) \ ids |-> t.data[r]],
                       IndexSet(t) \ ids)]

\* df[cols] : the listed columns, in the listed order
SelectColumns(t, cols) ==
    [index |-> t.index,
     columns |-> cols,
     data |-> Computed([r \in IndexSet(t) |->
                           Computed([k \in Range(cols) |-> t.data[r][k]],
                                    Range(cols))],
                       IndexSet(t))]

(***************************************************************************)
(* Reject records (defaultdict(set)): the keys in insertion order, each    *)
(* with its set of row identifiers.                                        *)
(***************************************************************************)
EmptyRejects == <<>>

RejectKeys(rejects) == {rejects[i].col : i \in 1..Len(rejects)}

\* rejects[col], the empty set for a key that was never written
RejectIds(rejects, col) ==
    IF col \in RejectKeys(rejects)
    THEN (CHOOSE e \in Range(rejects) : e.col = col).ids
    ELSE {}

\* rejects[col].update(ids)
AddRejects(rejects, col, ids) ==
    IF col \in RejectKeys(rejects)
    THEN [i \in 1..Len(rejects) |->
            IF rejects[i].col = col
            THEN [col |-> col, ids |-> rejects[i].ids \cup ids]
            ELSE rejects[i]]
    ELSE Append(rejects, [col |-> col, ids |-> ids])

AllRejectIds(rejects) == UNION {rejects[i].ids : i \in 1..Len(rejects)}

(***************************************************************************)
(* The validation predicates, transforms and generators the two phases     *)
(* configure.  A predicate gives "True", "False" or "NaN" (the result of a *)
(* .str method at a null value).                                           *)
(***************************************************************************)
Bool3(b) == IF b THEN "True" ELSE "False"

\* series.str.match(pattern) for a compiled pattern of MY_REGX
StrMatch(pattern, v) ==
    IF IsNull(v) THEN "NaN"
    ELSE CASE pattern = "TWO_LETTERS" -> Bool3(MatchTwoLetters(v))
           [] pattern = "BLOCK" -> Bool3(MatchBlock(v))
           [] pattern = "IUCR" -> Bool3(MatchIucr(v))
           [] pattern = "PRIMARY_TYPE" -> Bool3(MatchPrimaryType(v))
           [] pattern = "DESCRIPTION" -> Bool3(MatchDescription(v))
           [] pattern = "LOCATION_DESCRIPTION" ->
                  Bool3(MatchLocationDescription(v))
           [] pattern = "LOCATION" -> Bool3(MatchLocation(v))
           [] pattern = "ZIP_CODES" -> Bool3(MatchZipCodes(v))

\* id_val with str.isalnum in place of str.isdigit
id_val_alnum(v) ==
    IF IsNull(v) THEN "NaN"
    ELSE Bool3(Len(v) > 0 /\ \A i \in 1..Len(v) : v[i] \in AlphaNum)

\* id_val = lambda series: series.str.isdigit()
id_val(v) == IF IsNull(v) THEN "NaN" ELSE Bool3(IsDigit(v))

\* case_number_val looking at the first character only
case_number_val_first(v) ==
    IF IsNull(v) THEN "NaN" ELSE Bool3(Len(v) > 0 /\ v[1] \in Letters)

\* case_number_val = series.str.slice(0,2).str.match(MY_REGX.TWO_LETTERS)
case_number_val(v) ==
    IF IsNull(v) THEN "NaN" ELSE StrMatch("TWO_LETTERS", Slice0(v, 2))

\* description_val = series.str.match(DESCRIPTION, na=False)
\*                   & series.str.len().le(50)
description_val(v) ==
    IF IsNull(v) THEN "False"
    ELSE Bool3(MatchDescription(v) /\ Len(v) <= 50)

\* location_description_val, the same with LOCATION_DESCRIPTION
location_description_val(v) ==
    IF IsNull(v) THEN "False"
    ELSE Bool3(MatchLocationDescription(v) /\ Len(v) <= 50)

\* valid_int = lambda series: series.str.isdigit()
valid_int(v) == IF IsNull(v) THEN "NaN" ELSE Bool3(IsDigit(v))

\* capitalize_first = lambda series: series.str.title()
capitalize_first(v) == IF IsNull(v) THEN Null ELSE StrTitle(v)

\* upper_case = lambda series: series.str.upper()
upper_case(v) ==
    IF IsNull(v) THEN Null ELSE [i \in 1..Len(v) |-> UpperChar(v[i])]

\* zip_to_five without the '0' prefix of the four digit values
zip_to_five_nopad(v) ==
    IF IsNull(v) THEN Null
    ELSE IF Len(v) \in {4, 5} THEN v
    ELSE Null

\* zip_to_five: np.select([len == 4, len == 5], ['0' + zips, zips], nan)
zip_to_five(v) ==
    IF IsNull(v) THEN Null
    ELSE IF Len(v) = 4 THEN <<"0">> \o v
    ELSE IF Len(v) = 5 THEN v
    ELSE Null

\* tf_valid = ['true', 'false']
tf_valid == {<<"t", "r", "u", "e">>, <<"f", "a", "l", "s", "e">>}

\* date_yr_mo(df, dates): df['year'], df['month'] from the parsed dates
date_yr_mo(t, dates) ==
    LET anyNaT == \E r \in IndexSet(t) : IsNull(dates[r])
        t1 == SetColumn(t, "year",
                  [r \in IndexSet(t) |-> DtYearStr(dates[r], anyNaT)])
    IN  SetColumn(t1, "month",
            [r \in IndexSet(t) |-> DtMonthStr(dates[r], anyNaT)])

\* block_num_addr with the missing captures filled with the empty string
block_num_addr_blank(t, blocks) ==
    LET ex == [r \in IndexSet(t) |->
                  StrExtract2(IF IsNull(blocks[r]) THEN <<>>
                              ELSE BlockGroups(blocks[r]), blocks[r])]
        Blank(v) == IF IsNull(v) THEN <<>> ELSE v
        t1 == SetColumn(t, "house_num",
                        [r \in IndexSet(t) |-> Blank(ex[r][1])])
    IN  SetColumn(t1, "street_addr", [r \in IndexSet(t) |-> Blank(ex[r][2])])

\* block_num_addr(df, blocks):
\*   df[['house_num', 'street_addr']] = blocks.str.extract(MY_REGX.BLOCK)
block_num_addr(t, blocks) ==
    LET ex == [r \in IndexSet(t) |->
                  StrExtract2(IF IsNull(blocks[r]) THEN <<>>
                              ELSE BlockGroups(blocks[r]), blocks[r])]
        t1 == SetColumn(t, "house_num", [r \in IndexSet(t) |-> ex[r][1]])
    IN  SetColumn(t1, "street_addr", [r \in IndexSet(t) |-> ex[r][2]])

\* location_lat_lon with the two output columns exchanged
location_lat_lon_swapped(t, locations) ==
    LET ex == [r \in IndexSet(t) |->
                  StrExtract2(IF IsNull(locations[r]) THEN <<>>
                              ELSE LocationGroups(locations[r]), locations[r])]
        t1 == SetColumn(t, "longitude", [r \in IndexSet(t) |-> ex[r][1]])
    IN  SetColumn(t1, "latitude", [r \in IndexSet(t) |-> ex[r][2]])

\* location_lat_lon(df, locations):
\*   df[['latitude','longitude']] = locations.str.extract(MY_REGX.LOCATION)
location_lat_lon(t, locations) ==
    LET ex == [r \in IndexSet(t) |->
                  StrExtract2(IF IsNull(locations[r]) THEN <<>>
                              ELSE LocationGroups(locations[r]), locations[r])]
        t1 == SetColumn(t, "latitude", [r \in IndexSet(t) |-> ex[r][1]])
    IN  SetColumn(t1, "longitude", [r \in IndexSet(t) |-> ex[r][2]])

\* a rule's validation: a predicate (callable) or a compiled pattern
Validate(validation, v) ==
    CASE validation = "id_val" -> id_val(v)
      [] validation = "case_number_val" -> case_number_val(v)
      [] validation = "description_val" -> description_val(v)
      [] validation = "location_description_val" ->
             location_description_val(v)
      [] validation = "valid_int" -> valid_int(v)
      [] OTHER -> StrMatch(validation, v)

Transform(name, v) ==
    CASE name = "capitalize_first" -> capitalize_first(v)
      [] name = "upper_case" -> upper_case(v)
      [] name = "zip_to_five" -> zip_to_five(v)

Generate(name, t, vals) ==
    CASE name = "date_yr_mo" -> date_yr_mo(t, vals)
      [] name = "block_num_addr" -> block_num_addr(t, vals)
      [] name = "location_lat_lon" -> location_lat_lon(t, vals)

\* the keyword arguments of process_field, with their defaults
NoRule ==
    [validation |-> "none", valid_values |-> {}, other_nulls |-> {},
     date_field |-> FALSE, post_process |-> <<>>, generated_cols |-> <<>>,
     drop_field |-> FALSE]

(***************************************************************************)
(* data_utils.process_field: the field processor.  It applies one field's  *)
(* rule to the table and to the reject record, and gives both back.        *)
(***************************************************************************)
OrigName(field) == field \o "_orig"

Column(t, c) == [r \in IndexSet(t) |-> Cell(t, r, c)]

\* step 6: the transforms of post_process, in order, on the values that
\* passed validation and are not null; an entry <<"none", f>> overwrites the
\* field, an entry <<col, f>> writes column col
RECURSIVE PostProcess(_, _, _, _)
PostProcess(t, field, failing, post) ==
    IF post = <<>> THEN t
    ELSE LET newcol == post[1][1]
             cur == Column(t, field)
             out == [r \in IndexSet(t) |->
                        IF r \notin failing /\ NotNull(cur[r])
                        THEN Transform(post[1][2], cur[r])
                        ELSE IF newcol = "none" THEN cur[r] ELSE Null]
         IN  PostProcess(SetColumn(t, IF newcol = "none" THEN field
                                      ELSE newcol, out),
                         field, failing, Tail(post))

\* step 7: the generators of generated_cols, in order, each given the table
\* and the current values of the field
RECURSIVE GenerateCols(_, _, _)
GenerateCols(t, field, gens) ==
    IF gens = <<>> THEN t
    ELSE GenerateCols(Generate(gens[1], t, Column(t, field)), field,
                      Tail(gens))

\* step 2: the rows whose value fails the rule
FailingRows(t, vals, parsed, rule, mandatory) ==
    {r \in IndexSet(t) :
        IF IsNull(vals[r]) THEN mandatory
        ELSE IF rule.date_field THEN IsNull(parsed[r])
        ELSE IF rule.valid_values # {}
             THEN StrLower(vals[r]) \notin rule.valid_values
        ELSE IF rule.validation # "none"
             THEN Validate(rule.validation, vals[r]) # "True"
        ELSE FALSE}

ProcessField(tbl, field, rejects, rule, mandatory) ==
    LET \* step 1: the other_nulls sentinels become null
        vals == [r \in IndexSet(tbl) |->
                    IF Cell(tbl, r, field) \in rule.other_nulls
                    THEN Null ELSE Cell(tbl, r, field)]
        \* a date field holds its parsed dates from here on
        parsed == [r \in IndexSet(tbl) |->
                      IF rule.date_field THEN ToDatetime(vals[r])
                      ELSE vals[r]]
        \* step 5: an optional field keeps the failing value in its shadow
        \* column, made the first time the field has a failing row, and is
        \* nulled; step 4: a mandatory field is left as it is
        Shadowed(failing) ==
            IF mandatory \/ failing = {}
            THEN SetColumn(tbl, field, parsed)
            ELSE SetColumn(
                     SetColumn(tbl, field,
                         [r \in IndexSet(tbl) |->
                             IF r \in failing THEN Null ELSE parsed[r]]),
                     OrigName(field),
                     [r \in IndexSet(tbl) |->
                         IF r \in failing THEN vals[r]
                         ELSE Cell(tbl, r, OrigName(field))])
        \* step 8
        Dropped(t) == IF rule.drop_field THEN DropColumn(t, field) ELSE t
        \* steps 4 to 8, for the failing rows that steps 2 and 3 found
        Finish(failing) ==
            [df |-> Dropped(
                        GenerateCols(
                            PostProcess(Shadowed(failing), field, failing,
                                        rule.post_process),
                            field, rule.generated_cols)),
             rejects |-> AddRejects(rejects, field, failing)]
    IN  Finish(FailingRows(tbl, vals, parsed, rule, mandatory))

(***************************************************************************)
(* process_hard_rejects and process_soft_rejects                           *)
(***************************************************************************)
\* nonnull_fields, in insertion order
nonnull_fields ==
    << [field |-> "id",
        rule |-> [NoRule EXCEPT !.validation = "id_val"]],
       [field |-> "case_number",
        rule |-> [NoRule EXCEPT !.validation = "case_number_val"]],
       [field |-> "date",
        rule |-> [NoRule EXCEPT !.date_field = TRUE,
                                !.other_nulls =
                                    {<<"0", "0", "0", "0", "-", "0", "0",
                                       "-", "0", "0">>},
                                !.generated_cols = <<"date_yr_mo">>]] >>

\* nullable_fields, in insertion order
nullable_fields ==
    << [field |-> "block",
        rule |-> [NoRule EXCEPT !.validation = "BLOCK",
                                !.generated_cols = <<"block_num_addr">>]],
       [field |-> "iucr",
        rule |-> [NoRule EXCEPT !.validation = "IUCR"]],
       [field |-> "primary_type",
        rule |-> [NoRule EXCEPT !.validation = "PRIMARY_TYPE",
                                !.post_process =
                                    << <<"none", "capitalize_first">> >>]],
       [field |-> "description",
        rule |-> [NoRule EXCEPT !.validation = "description_val",
                                !.post_process =
                                    << <<"none", "capitalize_first">> >>]],
       [field |-> "location_description",
        rule |-> [NoRule EXCEPT !.validation = "location_description_val",
                                !.post_process =
                                    << <<"none", "capitalize_first">> >>]],
       [field |-> "arrest",
        rule |-> [NoRule EXCEPT !.valid_values = tf_valid]],
       [field |-> "domestic",
        rule |-> [NoRule EXCEPT !.valid_values = tf_valid]],
       [field |-> "beat",
        rule |-> [NoRule EXCEPT !.validation = "valid_int"]],
       [field |-> "district",
        rule |-> [NoRule EXCEPT !.validation = "valid_int"]],
       [field |-> "ward",
        rule |-> [NoRule EXCEPT !.validation = "valid_int"]],
       [field |-> "community_area",
        rule |-> [NoRule EXCEPT !.validation = "valid_int"]],
       [field |-> "location",
        rule |-> [NoRule EXCEPT !.validation = "LOCATION",
                                !.generated_cols = <<"location_lat_lon">>,
                                !.drop_field = TRUE]],
       [field |-> "zip_codes",
        rule |-> [NoRule EXCEPT !.validation = "ZIP_CODES",
                                !.post_process =
                                    << <<"none", "zip_to_five">> >>]] >>

\* ProcessFields taking the rows a field rejected out of the table before
\* the next field is processed
RECURSIVE ProcessFields_filtering(_, _, _, _)
ProcessFields_filtering(t, rejects, fields, mandatory) ==
    IF fields = <<>> THEN [df |-> t, rejects |-> rejects]
    ELSE LET Rest(res) ==
                 IF res.df.index = t.index /\ AllRejectIds(res.rejects) = {}
                 THEN ProcessFields_filtering(res.df, res.rejects,
                                              Tail(fields), mandatory)
                 ELSE ProcessFields_filtering(
                          DropRows(res.df, AllRejectIds(res.rejects)),
                          res.rejects, Tail(fields), mandatory)
         IN  Rest(ProcessField(t, fields[1].field, rejects, fields[1].rule,
                               mandatory))

\* for field, params in fields.items(): process_field(df, field, rejects, ..)
RECURSIVE ProcessFields(_, _, _, _)
ProcessFields(t, rejects, fields, mandatory) ==
    IF fields = <<>> THEN [df |-> t, rejects |-> rejects]
    ELSE LET \* the test has the table of this field computed before the
             \* next field is processed (arguments are evaluated on demand)
             Rest(res) ==
                 IF res.df.index = t.index
                 THEN ProcessFields(res.df, res.rejects, Tail(fields),
                                    mandatory)
                 ELSE ProcessFields(res.df, res.rejects, Tail(fields),
                                    mandatory)
         IN  Rest(ProcessField(t, fields[1].field, rejects, fields[1].rule,
                               mandatory))

\* FilterHardRejects leaving the loop after the first non-empty reject set
RECURSIVE FilterHardRejects_first(_, _)
FilterHardRejects_first(t, rejects) ==
    IF rejects = <<>> THEN t
    ELSE IF rejects[1].ids # {} THEN DropRows(t, rejects[1].ids)
    ELSE FilterHardRejects_first(t, Tail(rejects))

\* for _, ids in hard_rejects.items():
\*     if len(ids) > 0: df_filt = df_filt.loc[~df_filt.index.isin(ids)]
RECURSIVE FilterHardRejects(_, _)
FilterHardRejects(t, rejects) ==
    IF rejects = <<>> THEN t
    ELSE FilterHardRejects(
             IF rejects[1].ids # {} THEN DropRows(t, rejects[1].ids) ELSE t,
             Tail(rejects))

\* process_hard_rejects removing the rejects of a field before the next
\* field is processed
process_hard_rejects_incremental(t) ==
    LET Filtered(res) ==
            [df |-> DropRows(res.df, AllRejectIds(res.rejects)),
             rejects |-> res.rejects]
        Field(i, res) ==
            Filtered(ProcessField(res.df, nonnull_fields[i].field,
                                  res.rejects, nonnull_fields[i].rule, TRUE))
        Result(res) == [df_filt |-> res.df, hard_rejects |-> res.rejects]
    IN  Result(Field(3, Field(2, Field(1, [df |-> t,
                                           rejects |-> EmptyRejects]))))

\* process_hard_rejects handling its fields as the soft-reject phase does
process_hard_rejects_optional(t) ==
    LET Result(res) ==
            [df_filt |-> FilterHardRejects(res.df, res.rejects),
             hard_rejects |-> res.rejects]
    IN  Result(ProcessFields(t, EmptyRejects, nonnull_fields, FALSE))

\* process_hard_rejects(df): the copy of df is processed, df itself is not
process_hard_rejects(t) ==
    LET Result(res) ==
            [df_filt |-> FilterHardRejects(res.df, res.rejects),
             hard_rejects |-> res.rejects]
    IN  Result(ProcessFields(t, EmptyRejects, nonnull_fields, TRUE))

\* process_soft_rejects handling its fields as the hard-reject phase does
process_soft_rejects_mandatory(t) ==
    LET Result(res) == [df_filt |-> res.df, soft_rejects |-> res.rejects]
    IN  Result(ProcessFields(t, EmptyRejects, nullable_fields, TRUE))

\* process_soft_rejects removing the rejected rows as the hard-reject phase
\* does
process_soft_rejects_filtered(t) ==
    LET Result(res) ==
            [df_filt |-> FilterHardRejects(res.df, res.rejects),
             soft_rejects |-> res.rejects]
    IN  Result(ProcessFields(t, EmptyRejects, nullable_fields, FALSE))

\* process_soft_rejects(df_filt): df_filt is modified in place
process_soft_rejects(t) ==
    LET Result(res) == [df_filt |-> res.df, soft_rejects |-> res.rejects]
    IN  Result(ProcessFields(t, EmptyRejects, nullable_fields, FALSE))

\* the field dictionary with its entries inserted in another order
Reordered(fields, order) == [i \in 1..Len(fields) |-> fields[order[i]]]

\* process_hard_rejects with nonnull_fields written in the given order
process_hard_rejects_in(t, order) ==
    LET Result(res) ==
            [df_filt |-> FilterHardRejects(res.df, res.rejects),
             rejects |-> res.rejects]
    IN  Result(ProcessFields(t, EmptyRejects,
                             Reordered(nonnull_fields, order), TRUE))

\* process_soft_rejects with nullable_fields written in the given order
process_soft_rejects_in(t, order) ==
    LET Result(res) == [df_filt |-> res.df, rejects |-> res.rejects]
    IN  Result(ProcessFields(t, EmptyRejects,
                             Reordered(nullable_fields, order), FALSE))

\* the orders the hard-reject phase is run in: every permutation
HardOrders == Permutations(1..Len(nonnull_fields))

\* the orders the soft-reject phase is run in: the written order with two
\* neighbouring entries exchanged, the written order reversed, and the
\* written order with its first entry moved to the end
SoftOrders ==
    LET n == Len(nullable_fields)
    IN  {[k \in 1..n |-> IF k = i THEN i + 1 ELSE IF k = i + 1 THEN i ELSE k] :
            i \in 1..(n - 1)}
        \cup {[k \in 1..n |-> n + 1 - k]}
        \cup {[k \in 1..n |-> IF k = n THEN 1 ELSE k + 1]}

\* the places a field's processing can raise: its validation (a rule that
\* cannot be applied), a transform of its post_process, or a generator of its
\* generated_cols (an output with another row count than the table)
FaultPlaces ==
    {<<k, "validation">> : k \in 1..Len(nullable_fields)}
    \cup {<<k, "post_process">> :
              k \in {i \in 1..Len(nullable_fields) :
                         nullable_fields[i].rule.post_process # <<>>}}
    \cup {<<k, "generated_cols">> :
              k \in {i \in 1..Len(nullable_fields) :
                         nullable_fields[i].rule.generated_cols # <<>>}}

\* process_field up to the step that raises: the table and the reject record
\* as the steps before it left them
ProcessFieldUntil(tbl, field, rejects, rule, mandatory, at) ==
    IF at = "validation" THEN [df |-> tbl, rejects |-> rejects]
    ELSE ProcessField(tbl, field, rejects,
                      [rule EXCEPT !.post_process =
                                       IF at = "post_process" THEN <<>> ELSE @,
                                   !.generated_cols = <<>>,
                                   !.drop_field = FALSE],
                      mandatory)

\* process_soft_rejects when the processing of its k-th field raises: the
\* table, modified in place, and the local reject record at that moment
process_soft_rejects_raising(t, k, at) ==
    LET Partial(before) ==
            ProcessFieldUntil(before.df, nullable_fields[k].field,
                              before.rejects, nullable_fields[k].rule, FALSE,
                              at)
    IN  Partial(ProcessFields(t, EmptyRejects,
                              SubSeq(nullable_fields, 1, k - 1), FALSE))

(***************************************************************************)
(* reject analysis and report assembly                                     *)
(***************************************************************************)
\* the offending columns of a row, in the order of the reject record
RECURSIVE OffendingCols(_, _)
OffendingCols(rejects, r) ==
    IF rejects = <<>> THEN <<>>
    ELSE (IF r \in rejects[1].ids THEN <<rejects[1].col>> ELSE <<>>)
         \o OffendingCols(Tail(rejects), r)

\* one phase of analyze_hard_and_soft_rejects: every distinct row identifier
\* of the record, with the list of its offending columns
UniqueRejects(rejects) ==
    [r \in AllRejectIds(rejects) |-> OffendingCols(rejects, r)]

analyze_hard_and_soft_rejects(hard, soft) ==
    <<UniqueRejects(hard), UniqueRejects(soft)>>

\* one report of generate_reject_dfs: the rows of table t whose identifier is
\* in unq, each once and in the order of t, with the offending columns and
\* the name of the source file
RejectDf(t, file, unq) ==
    [index |-> SelectSeq(t.index, LAMBDA r : r \in DOMAIN unq),
     columns |-> t.columns \o <<"cols", "file_name">>,
     data |-> [r \in IndexSet(t) \cap DOMAIN unq |-> t.data[r]],
     cols |-> [r \in IndexSet(t) \cap DOMAIN unq |-> unq[r]],
     file_name |-> file]

generate_reject_dfs(t, t_filt, file, hard, unq_hard, soft, unq_soft) ==
    <<RejectDf(t, file, unq_hard), RejectDf(t_filt, file, unq_soft)>>

(***************************************************************************)
(* The chunks the model loads: MaxRows rows, every cell a string or null,  *)
(* at most MaxEdits cells different from the all-valid base row.           *)
(***************************************************************************)
\* keep_cols
keep_cols ==
    <<"id", "case_number", "date", "block",
      "iucr", "primary_type", "description", "location_description",
      "arrest", "domestic", "beat", "district",
      "ward", "community_area", "location", "zip_codes">>

BaseRow ==
    [c \in Range(keep_cols) |->
        CASE c = "id" -> <<"1", "2">>
          [] c = "case_number" -> <<"H", "Y", "1", "2", "3", "4", "5", "6">>
          [] c = "date" -> <<"0", "1", "/", "1", "5", "/", "2", "0", "1", "9">>
          [] c = "block" -> <<"0", "1", "3", "X", "X", " ", "W", " ", "3", "R", "D", " ", "A", "V", "E">>
          [] c = "iucr" -> <<"0", "4", "8", "6">>
          [] c = "primary_type" -> <<"T", "H", "E", "F", "T">>
          [] c = "description" -> <<"O", "V", "E", "R", " ", "$", "5", "0", "0">>
          [] c = "location_description" -> <<"S", "T", "R", "E", "E", "T">>
          [] c = "arrest" -> <<"t", "r", "u", "e">>
          [] c = "domestic" -> <<"F", "A", "L", "S", "E">>
          [] c = "beat" -> <<"0", "1", "1", "1">>
          [] c = "district" -> <<"1", "1">>
          [] c = "ward" -> <<"4", "2">>
          [] c = "community_area" -> <<"3", "2">>
          [] c = "location" -> <<"(", "4", "1", ".", "8", "8", ",", " ", "-", "8", "7", ".", "6", "2", ")">>
          [] c = "zip_codes" -> <<"6", "0", "6", "0", "1">>]

\* the other values a cell is loaded with
AltValues ==
    [c \in Range(keep_cols) |->
        CASE c = "id" ->
                 {Null,
                  <<"1", "a">>}
          [] c = "case_number" ->
                 {Null,
                  <<"1", "2", "3", "4", "5", "6">>,
                  <<"H", "1">>}
          [] c = "date" ->
                 {Null,
                  <<"0", "0", "0", "0", "-", "0", "0", "-", "0", "0">>,
                  <<"1", "3", "/", "4", "5", "/", "2", "0", "1", "9">>}
          [] c = "block" ->
                 {<<"W", " ", "3", "R", "D", " ", "A", "V", "E">>}
          [] c = "iucr" ->
                 {<<"4", "8">>}
          [] c = "primary_type" ->
                 {<<"T", "H", "E", "F", "T", " ", "2">>}
          [] c = "description" ->
                 {Null,
                  <<"A", "#", "B">>}
          [] c = "location_description" ->
                 {<<"A", "P", "T", " ", "2">>}
          [] c = "arrest" ->
                 {<<"y", "e", "s">>}
          [] c = "domestic" ->
                 {Null}
          [] c = "beat" ->
                 {<<"1", "a">>}
          [] c = "district" ->
                 {<<"x">>}
          [] c = "ward" ->
                 {<<"w", "2">>}
          [] c = "community_area" ->
                 {<<"n", "/", "a">>}
          [] c = "location" ->
                 {Null,
                  <<"4", "1", ".", "8", "8", ",", "-", "8", "7", ".", "6", "2">>,
                  <<"(", "1", ".", "5", ",", "-", "2", ".", "2", "5", ")">>}
          [] c = "zip_codes" ->
                 {<<"6", "0", "6">>,
                  <<"6", "0", "6", "0">>,
                  <<"6", "0", "6", "0", "1", "2">>}]

RowIds == 0..(MaxRows - 1)

Edits ==
    UNION {{<<r, c, v>> : v \in AltValues[c]} :
              r \in RowIds, c \in Range(keep_cols)}

RECURSIVE EditSets(_)
EditSets(k) ==
    IF k = 0 THEN {{}}
    ELSE LET smaller == EditSets(k - 1)
         IN  smaller \cup
             {es \cup {e} : es \in smaller,
                            e \in Edits}

\* no cell is edited twice
Consistent(es) ==
    \A e1, e2 \in es : e1[1] = e2[1] /\ e1[2] = e2[2] => e1 = e2

LoadTable(es) ==
    [index |-> [i \in 1..MaxRows |-> i - 1],
     columns |-> keep_cols,
     data |-> Computed([r \in RowIds |->
                  Computed([c \in Range(keep_cols) |->
                               IF \E e \in es : e[1] = r /\ e[2] = c
                               THEN (CHOOSE e \in es :
                                        e[1] = r /\ e[2] = c)[3]
                               ELSE BaseRow[c]],
                           Range(keep_cols))],
                  RowIds)]

InputTables ==
    {LoadTable(es) : es \in {x \in EditSets(MaxEdits) : Consistent(x)}}

(***************************************************************************)
(* The scrub cell of the notebook, one step per statement.                 *)
(***************************************************************************)
VARIABLES
    pc,                 \* the statement the cell is at
    df,                 \* the loaded chunk
    file_name,          \* the name of the chunk's file
    df_filt,            \* the table both phases work on
    hard_rejects,       \* reject record of the hard-reject phase
    soft_rejects,       \* reject record of the soft-reject phase
    unq_hard_rejects,   \* analysis of hard_rejects
    unq_soft_rejects,   \* analysis of soft_rejects
    hard_rej_df,        \* hard-reject report
    soft_rej_df,        \* soft-reject report
    clean_up,           \* the clean table written out
    run,                \* how many times the cell was started
    first,              \* what the first run of the cell produced
    again,              \* result of process_hard_rejects on its own output
    permuted,           \* result of a phase run with its fields reordered
    fault,              \* the field whose processing raised, and where
    other,              \* a second invocation, on another chunk
    dispatch            \* the notebook cell that sends the files to Lambda

vars == <<pc, df, file_name, df_filt, hard_rejects, soft_rejects,
          unq_hard_rejects, unq_soft_rejects, hard_rej_df, soft_rej_df,
          clean_up, run, first, again, permuted, fault, other,
                   dispatch>>

EmptyTable == [index |-> <<>>, columns |-> <<>>, data |-> <<>>]

EmptyReport ==
    [index |-> <<>>, columns |-> <<>>, data |-> <<>>, cols |-> <<>>,
     file_name |-> ""]

NoOutputs ==
    [hard_rejects |-> <<>>, soft_rejects |-> <<>>, hard_rej_df |-> EmptyReport,
     soft_rej_df |-> EmptyReport, clean_up |-> EmptyTable]

NotRun == [df_filt |-> EmptyTable, hard_rejects |-> <<>>]

NotReordered == [order |-> <<>>, df_filt |-> EmptyTable, rejects |-> <<>>]

NoFault == [field |-> "", at |-> ""]

\* no second invocation
NotInvoked ==
    [pc |-> "none", df |-> EmptyTable, file_name |-> "",
     df_filt |-> EmptyTable, hard_rejects |-> <<>>, soft_rejects |-> <<>>,
     unq_hard_rejects |-> <<>>, unq_soft_rejects |-> <<>>,
     hard_rej_df |-> EmptyReport, soft_rej_df |-> EmptyReport,
     clean_up |-> EmptyTable]

\* '_orig' in col, for the column names this schema can produce
IsOrigCol(c) == \E f \in Range(keep_cols) : c = OrigName(f)

\* clean_cols = [col for col in df_filt.columns if '_orig' not in col]
clean_cols(t) == SelectSeq(t.columns, LAMBDA c : ~IsOrigCol(c))

\* the dispatch cell has not been run
NotDispatching ==
    [pc |-> "none", s3_files |-> <<>>, i |-> 1, payloads |-> <<>>,
     statuses |-> <<>>, respose |-> "unbound", response |-> "unbound"]

Init ==
    /\ pc = "loaded"
    /\ df \in InputTables
    /\ file_name = "chi-town-crime_001.csv"
    /\ df_filt = EmptyTable
    /\ hard_rejects = <<>>
    /\ soft_rejects = <<>>
    /\ unq_hard_rejects = <<>>
    /\ unq_soft_rejects = <<>>
    /\ hard_rej_df = EmptyReport
    /\ soft_rej_df = EmptyReport
    /\ clean_up = EmptyTable
    /\ run = 1
    /\ first = NoOutputs
    /\ again = NotRun
    /\ permuted = NotReordered
    /\ fault = NoFault
    /\ dispatch = NotDispatching
    /\ other = NotInvoked

\* ProcessHardRejects without the copy: the fields are processed in df itself
ProcessHardRejects_inplace ==
    /\ pc = "loaded"
    /\ \E res \in {process_hard_rejects(df)} :
           /\ df_filt' = res.df_filt
           /\ hard_rejects' = res.hard_rejects
    /\ df' = ProcessFields(df, EmptyRejects, nonnull_fields, TRUE).df
    /\ pc' = "hard"
    /\ UNCHANGED <<permuted, fault, other,
                   dispatch>>
    /\ UNCHANGED <<file_name, soft_rejects, unq_hard_rejects,
                   unq_soft_rejects, hard_rej_df, soft_rej_df, clean_up,
                   run, first, again>>

\* ProcessHardRejects with the reject record kept at module level, where the
\* other invocation writes too: the record is not empty at the start
ProcessHardRejects_shared ==
    /\ pc = "loaded"
    /\ \E res \in {ProcessFields(df, other.hard_rejects, nonnull_fields,
                                  TRUE)} :
           /\ df_filt' = FilterHardRejects(res.df, res.rejects)
           /\ hard_rejects' = res.rejects
    /\ pc' = "hard"
    /\ UNCHANGED <<permuted, fault, other,
                   dispatch>>
    /\ UNCHANGED <<df, file_name, soft_rejects, unq_hard_rejects,
                   unq_soft_rejects, hard_rej_df, soft_rej_df, clean_up,
                   run, first, again>>

\* df_filt, hard_rejects = process_hard_rejects(df)
ProcessHardRejects ==
    /\ pc = "loaded"
    /\ \E res \in {process_hard_rejects(df)} :
           /\ df_filt' = res.df_filt
           /\ hard_rejects' = res.hard_rejects
    /\ pc' = "hard"
    /\ UNCHANGED <<permuted, fault, other,
                   dispatch>>
    /\ UNCHANGED <<df, file_name, soft_rejects, unq_hard_rejects,
                   unq_soft_rejects, hard_rej_df, soft_rej_df, clean_up,
                   run, first, again>>

\* ProcessSoftRejects on a df_filt that is df itself, not a copy of it (no
\* row was removed): the changes made in place reach df
ProcessSoftRejects_alias ==
    /\ pc = "hard"
    /\ \E res \in {process_soft_rejects(df_filt)} :
           /\ df_filt' = res.df_filt
           /\ soft_rejects' = res.soft_rejects
           /\ df' = IF df_filt.index = df.index THEN res.df_filt ELSE df
    /\ pc' = "soft"
    /\ UNCHANGED <<permuted, fault, other,
                   dispatch>>
    /\ UNCHANGED <<file_name, hard_rejects, unq_hard_rejects,
                   unq_soft_rejects, hard_rej_df, soft_rej_df, clean_up,
                   run, first, again>>

\* ProcessSoftRejects handed the loaded table instead of the filtered one
ProcessSoftRejects_unfiltered ==
    /\ pc = "hard"
    /\ \E res \in {process_soft_rejects(df)} :
           /\ df_filt' = res.df_filt
           /\ soft_rejects' = res.soft_rejects
    /\ pc' = "soft"
    /\ UNCHANGED <<permuted, fault, other,
                   dispatch>>
    /\ UNCHANGED <<df, file_name, hard_rejects, unq_hard_rejects,
                   unq_soft_rejects, hard_rej_df, soft_rej_df, clean_up,
                   run, first, again>>

\* soft_rejects = process_soft_rejects(df_filt)
ProcessSoftRejects ==
    /\ pc = "hard"
    /\ \E res \in {process_soft_rejects(df_filt)} :
           /\ df_filt' = res.df_filt
           /\ soft_rejects' = res.soft_rejects
    /\ pc' = "soft"
    /\ UNCHANGED <<permuted, fault, other,
                   dispatch>>
    /\ UNCHANGED <<df, file_name, hard_rejects, unq_hard_rejects,
                   unq_soft_rejects, hard_rej_df, soft_rej_df, clean_up,
                   run, first, again>>

\* AnalyzeRejects with the two reject records handed over in the other order
AnalyzeRejects_swapped ==
    /\ pc = "soft"
    /\ \E res \in {analyze_hard_and_soft_rejects(soft_rejects,
                                                  hard_rejects)} :
           /\ unq_hard_rejects' = res[1]
           /\ unq_soft_rejects' = res[2]
    /\ pc' = "analyzed"
    /\ UNCHANGED <<permuted, fault, other,
                   dispatch>>
    /\ UNCHANGED <<df, file_name, df_filt, hard_rejects, soft_rejects,
                   hard_rej_df, soft_rej_df, clean_up, run, first, again>>

\* unq_hard_rejects, unq_soft_rejects = analyze_hard_and_soft_rejects(..)
AnalyzeRejects ==
    /\ pc = "soft"
    /\ \E res \in {analyze_hard_and_soft_rejects(hard_rejects,
                                                  soft_rejects)} :
           /\ unq_hard_rejects' = res[1]
           /\ unq_soft_rejects' = res[2]
    /\ pc' = "analyzed"
    /\ UNCHANGED <<permuted, fault, other,
                   dispatch>>
    /\ UNCHANGED <<df, file_name, df_filt, hard_rejects, soft_rejects,
                   hard_rej_df, soft_rej_df, clean_up, run, first, again>>

\* GenerateRejectDfs handing the filtered table over as the original one
GenerateRejectDfs_filtered ==
    /\ pc = "analyzed"
    /\ LET res == generate_reject_dfs(df_filt, df_filt, file_name,
                                      hard_rejects, unq_hard_rejects,
                                      soft_rejects, unq_soft_rejects)
       IN  /\ hard_rej_df' = res[1]
           /\ soft_rej_df' = res[2]
    /\ pc' = "reported"
    /\ UNCHANGED <<permuted, fault, other,
                   dispatch>>
    /\ UNCHANGED <<df, file_name, df_filt, hard_rejects, soft_rejects,
                   unq_hard_rejects, unq_soft_rejects, clean_up, run, first,
                   again>>

\* hard_rej_df, soft_rej_df = generate_reject_dfs(..)
GenerateRejectDfs ==
    /\ pc = "analyzed"
    /\ LET res == generate_reject_dfs(df, df_filt, file_name, hard_rejects,
                                      unq_hard_rejects, soft_rejects,
                                      unq_soft_rejects)
       IN  /\ hard_rej_df' = res[1]
           /\ soft_rej_df' = res[2]
    /\ pc' = "reported"
    /\ UNCHANGED <<permuted, fault, other,
                   dispatch>>
    /\ UNCHANGED <<df, file_name, df_filt, hard_rejects, soft_rejects,
                   unq_hard_rejects, unq_soft_rejects, clean_up, run, first,
                   again>>

\* the with block: the two reports and df_filt[clean_cols] are written
Upload ==
    /\ pc = "reported"
    /\ clean_up' = SelectColumns(df_filt, clean_cols(df_filt))
    /\ pc' = "done"
    /\ UNCHANGED <<permuted, fault, other,
                   dispatch>>
    /\ UNCHANGED <<df, file_name, df_filt, hard_rejects, soft_rejects,
                   unq_hard_rejects, unq_soft_rejects, hard_rej_df,
                   soft_rej_df, run, first, again>>

\* the cell is run once more on the chunk still held in df
RerunCell ==
    /\ pc = "done"
    /\ run = 1
    /\ first' = [hard_rejects |-> hard_rejects,
                 soft_rejects |-> soft_rejects,
                 hard_rej_df |-> hard_rej_df,
                 soft_rej_df |-> soft_rej_df,
                 clean_up |-> clean_up]
    /\ run' = 2
    /\ pc' = "loaded"
    /\ UNCHANGED <<permuted, fault, other,
                   dispatch>>
    /\ UNCHANGED <<df, file_name, df_filt, hard_rejects, soft_rejects,
                   unq_hard_rejects, unq_soft_rejects, hard_rej_df,
                   soft_rej_df, clean_up, again>>

Next ==
    \/ ProcessHardRejects
    \/ ProcessSoftRejects
    \/ AnalyzeRejects
    \/ GenerateRejectDfs
    \/ Upload

Spec == Init /\ [][Next]_vars

\* the cell, run a second time when it is done
NextRerun ==
    \/ ProcessHardRejects
    \/ ProcessSoftRejects
    \/ AnalyzeRejects
    \/ GenerateRejectDfs
    \/ Upload
    \/ RerunCell

SpecRerun == Init /\ [][NextRerun]_vars

\* process_hard_rejects applied to the filtered table it returned
HardRejectsAgain ==
    /\ pc = "hard"
    /\ again' = process_hard_rejects(df_filt)
    /\ pc' = "hard_again"
    /\ UNCHANGED <<permuted, fault, other,
                   dispatch>>
    /\ UNCHANGED <<df, file_name, df_filt, hard_rejects, soft_rejects,
                   unq_hard_rejects, unq_soft_rejects, hard_rej_df,
                   soft_rej_df, clean_up, run, first>>

NextTwice ==
    \/ ProcessHardRejects
    \/ HardRejectsAgain

SpecTwice == Init /\ [][NextTwice]_vars

\* process_hard_rejects run on the loaded chunk with its field dictionary
\* in another order
HardRejectsInOrder ==
    /\ pc = "hard"
    /\ \E order \in HardOrders :
           \E res \in {process_hard_rejects_in(df, order)} :
               permuted' = [order |-> order, df_filt |-> res.df_filt,
                            rejects |-> res.rejects]
    /\ pc' = "hard_order"
    /\ UNCHANGED <<df, file_name, df_filt, hard_rejects, soft_rejects,
                   unq_hard_rejects, unq_soft_rejects, hard_rej_df,
                   soft_rej_df, clean_up, run, first, again, fault, other,
                   dispatch>>

NextHardOrder ==
    \/ ProcessHardRejects
    \/ HardRejectsInOrder

SpecHardOrder == Init /\ [][NextHardOrder]_vars

\* process_soft_rejects run on a fresh hard-filtered copy of the chunk with
\* its field dictionary in another order
SoftRejectsInOrder ==
    /\ pc = "soft"
    /\ \E order \in SoftOrders :
           \E res \in {process_soft_rejects_in(
                           process_hard_rejects(df).df_filt, order)} :
               permuted' = [order |-> order, df_filt |-> res.df_filt,
                            rejects |-> res.rejects]
    /\ pc' = "soft_order"
    /\ UNCHANGED <<df, file_name, df_filt, hard_rejects, soft_rejects,
                   unq_hard_rejects, unq_soft_rejects, hard_rej_df,
                   soft_rej_df, clean_up, run, first, again, fault, other,
                   dispatch>>

NextSoftOrder ==
    \/ ProcessHardRejects
    \/ ProcessSoftRejects
    \/ SoftRejectsInOrder

SpecSoftOrder == Init /\ [][NextSoftOrder]_vars

\* SoftRejectsRaise with the exception caught in the loop: the remaining
\* fields are processed and the cell goes on
SoftRejectsRaise_swallowed ==
    /\ pc = "hard"
    /\ \E place \in FaultPlaces :
           \E part \in {process_soft_rejects_raising(df_filt, place[1],
                                                     place[2])} :
               \E res \in {ProcessFields(part.df, part.rejects,
                                         SubSeq(nullable_fields, place[1] + 1,
                                                Len(nullable_fields)),
                                         FALSE)} :
                   /\ df_filt' = res.df
                   /\ soft_rejects' = res.rejects
                   /\ fault' = [field |-> nullable_fields[place[1]].field,
                                at |-> place[2]]
    /\ pc' = "soft"
    /\ UNCHANGED <<df, file_name, hard_rejects, unq_hard_rejects,
                   unq_soft_rejects, hard_rej_df, soft_rej_df, clean_up,
                   run, first, again, permuted, other,
                   dispatch>>

\* soft_rejects = process_soft_rejects(df_filt) raising while a field is
\* processed: soft_rejects is not assigned, the cell stops, and df_filt
\* keeps what was written in place before
SoftRejectsRaise ==
    /\ pc = "hard"
    /\ \E place \in FaultPlaces :
           \E part \in {process_soft_rejects_raising(df_filt, place[1],
                                                     place[2])} :
               /\ df_filt' = part.df
               /\ fault' = [field |-> nullable_fields[place[1]].field,
                            at |-> place[2]]
    /\ pc' = "error"
    /\ UNCHANGED <<df, file_name, hard_rejects, soft_rejects,
                   unq_hard_rejects, unq_soft_rejects, hard_rej_df,
                   soft_rej_df, clean_up, run, first, again, permuted, other,
                   dispatch>>

NextFault ==
    \/ ProcessHardRejects
    \/ ProcessSoftRejects
    \/ SoftRejectsRaise
    \/ AnalyzeRejects
    \/ GenerateRejectDfs
    \/ Upload

SpecFault == Init /\ [][NextFault]_vars

\* the chunks the second invocation is given
OtherTables ==
    {LoadTable({<<0, "id", Null>>, <<1, "zip_codes", <<"6", "0", "6">> >>}),
     LoadTable({<<1, "date", <<"0", "0", "0", "0", "-", "0", "0", "-",
                               "0", "0">> >>,
                <<0, "ward", <<"w", "2">> >>})}

\* two invocations, each with its chunk loaded
InitPair ==
    /\ pc = "loaded"
    /\ df \in InputTables
    /\ file_name = "chi-town-crime_001.csv"
    /\ df_filt = EmptyTable
    /\ hard_rejects = <<>>
    /\ soft_rejects = <<>>
    /\ unq_hard_rejects = <<>>
    /\ unq_soft_rejects = <<>>
    /\ hard_rej_df = EmptyReport
    /\ soft_rej_df = EmptyReport
    /\ clean_up = EmptyTable
    /\ run = 1
    /\ first = NoOutputs
    /\ again = NotRun
    /\ permuted = NotReordered
    /\ fault = NoFault
    /\ dispatch = NotDispatching
    /\ \E t \in OtherTables \ {df} :
           other = [NotInvoked EXCEPT !.pc = "loaded", !.df = t,
                                      !.file_name = "chi-town-crime_002.csv"]

\* the steps of the second invocation
OtherHardRejects ==
    /\ other.pc = "loaded"
    /\ \E res \in {process_hard_rejects(other.df)} :
           other' = [other EXCEPT !.df_filt = res.df_filt,
                                  !.hard_rejects = res.hard_rejects,
                                  !.pc = "hard"]
    /\ UNCHANGED <<pc, df, file_name, df_filt, hard_rejects, soft_rejects,
                   unq_hard_rejects, unq_soft_rejects, hard_rej_df,
                   soft_rej_df, clean_up, run, first, again, permuted, fault,
                   dispatch>>

OtherSoftRejects ==
    /\ other.pc = "hard"
    /\ \E res \in {process_soft_rejects(other.df_filt)} :
           other' = [other EXCEPT !.df_filt = res.df_filt,
                                  !.soft_rejects = res.soft_rejects,
                                  !.pc = "soft"]
    /\ UNCHANGED <<pc, df, file_name, df_filt, hard_rejects, soft_rejects,
                   unq_hard_rejects, unq_soft_rejects, hard_rej_df,
                   soft_rej_df, clean_up, run, first, again, permuted, fault,
                   dispatch>>

OtherAnalyzeRejects ==
    /\ other.pc = "soft"
    /\ \E res \in {analyze_hard_and_soft_rejects(other.hard_rejects,
                                                  other.soft_rejects)} :
           other' = [other EXCEPT !.unq_hard_rejects = res[1],
                                  !.unq_soft_rejects = res[2],
                                  !.pc = "analyzed"]
    /\ UNCHANGED <<pc, df, file_name, df_filt, hard_rejects, soft_rejects,
                   unq_hard_rejects, unq_soft_rejects, hard_rej_df,
                   soft_rej_df, clean_up, run, first, again, permuted, fault,
                   dispatch>>

OtherGenerateRejectDfs ==
    /\ other.pc = "analyzed"
    /\ \E res \in {generate_reject_dfs(other.df, other.df_filt,
                                        other.file_name, other.hard_rejects,
                                        other.unq_hard_rejects,
                                        other.soft_rejects,
                                        other.unq_soft_rejects)} :
           other' = [other EXCEPT !.hard_rej_df = res[1],
                                  !.soft_rej_df = res[2],
                                  !.pc = "reported"]
    /\ UNCHANGED <<pc, df, file_name, df_filt, hard_rejects, soft_rejects,
                   unq_hard_rejects, unq_soft_rejects, hard_rej_df,
                   soft_rej_df, clean_up, run, first, again, permuted, fault,
                   dispatch>>

OtherUpload ==
    /\ other.pc = "reported"
    /\ other' = [other EXCEPT !.clean_up =
                                   SelectColumns(other.df_filt,
                                                 clean_cols(other.df_filt)),
                               !.pc = "done"]
    /\ UNCHANGED <<pc, df, file_name, df_filt, hard_rejects, soft_rejects,
                   unq_hard_rejects, unq_soft_rejects, hard_rej_df,
                   soft_rej_df, clean_up, run, first, again, permuted, fault,
                   dispatch>>

NextPair ==
    \/ ProcessHardRejects
    \/ ProcessSoftRejects
    \/ AnalyzeRejects
    \/ GenerateRejectDfs
    \/ Upload
    \/ OtherHardRejects
    \/ OtherSoftRejects
    \/ OtherAnalyzeRejects
    \/ OtherGenerateRejectDfs
    \/ OtherUpload

SpecPair == InitPair /\ [][NextPair]_vars

\* the cell run from its first statement to its last on one chunk, alone
RunAlone(t, file) ==
    LET Uploaded(filt, hard, soft, reports) ==
            [hard_rejects |-> hard, soft_rejects |-> soft,
             hard_rej_df |-> reports[1], soft_rej_df |-> reports[2],
             clean_up |-> SelectColumns(filt, clean_cols(filt))]
        Reported(filt, hard, soft, unq) ==
            Uploaded(filt, hard, soft,
                     generate_reject_dfs(t, filt, file, hard, unq[1], soft,
                                         unq[2]))
        Analyzed(hard, s) ==
            Reported(s.df_filt, hard, s.soft_rejects,
                     analyze_hard_and_soft_rejects(hard, s.soft_rejects))
        Softened(h) ==
            Analyzed(h.hard_rejects, process_soft_rejects(h.df_filt))
    IN  Softened(process_hard_rejects(t))

(***************************************************************************)
(* Lambda.ipynb: the cell that sends every file of s3_files to the Lambda  *)
(* function.  A file is a pair of its number and its path, the path held   *)
(* as its segments between the slashes.                                    *)
(***************************************************************************)
MaxFiles == 3

S3Files ==
    {<<n, <<"chi-town-scrub-data", "chi-town-crime_" \o ToString(n)>> >> :
        n \in 1..MaxFiles}

\* the lists get_s3_files_to_process can give: files of the bucket, none
\* twice
S3FileLists ==
    {fs \in UNION {[1..k -> S3Files] : k \in 0..MaxFiles} :
        \A a, b \in DOMAIN fs : a # b => fs[a] # fs[b]}

\* the StatusCode of a response of lambda_client.invoke
StatusCodes == {202, 400, 429, 500}

\* s3_bucket = s3_file.split('/')[0]; s3_key = '/'.join(s3_file.split('/')[1:])
Payload(s3_file) == [s3_bucket |-> Head(s3_file), s3_key |-> Tail(s3_file)]

\* the kernel has run the cells above the loop: s3_files is bound, and no
\* cell of the notebook has bound response
InitDispatch ==
    /\ pc = "none"
    /\ df = EmptyTable
    /\ file_name = ""
    /\ df_filt = EmptyTable
    /\ hard_rejects = <<>>
    /\ soft_rejects = <<>>
    /\ unq_hard_rejects = <<>>
    /\ unq_soft_rejects = <<>>
    /\ hard_rej_df = EmptyReport
    /\ soft_rej_df = EmptyReport
    /\ clean_up = EmptyTable
    /\ run = 1
    /\ first = NoOutputs
    /\ again = NotRun
    /\ permuted = NotReordered
    /\ fault = NoFault
    /\ other = NotInvoked
    /\ \E fs \in S3FileLists :
           dispatch = [NotDispatching EXCEPT !.pc = "for", !.s3_files = fs]

\* for _, s3_file in s3_files: ... respose = lambda_client.invoke(...)
Invoke ==
    /\ dispatch.pc = "for"
    /\ dispatch.i <= Len(dispatch.s3_files)
    /\ \E code \in StatusCodes :
           dispatch' =
               [dispatch EXCEPT
                   !.payloads =
                       Append(@, Payload(dispatch.s3_files[dispatch.i][2])),
                   !.statuses = Append(@, code),
                   !.respose = [StatusCode |-> code],
                   !.pc = "if"]
    /\ UNCHANGED <<pc, df, file_name, df_filt, hard_rejects, soft_rejects,
                   unq_hard_rejects, unq_soft_rejects, hard_rej_df,
                   soft_rej_df, clean_up, run, first, again, permuted, fault,
                   other>>

\* if response['StatusCode'] != 202: logger.error(...); break
\* the name response is looked up in the kernel: NameError when unbound
TestStatus ==
    /\ dispatch.pc = "if"
    /\ dispatch' =
           IF dispatch.response = "unbound"
           THEN [dispatch EXCEPT !.pc = "NameError"]
           ELSE IF dispatch.response.StatusCode # 202
           THEN [dispatch EXCEPT !.pc = "break"]
           ELSE [dispatch EXCEPT !.pc = "for", !.i = @ + 1]
    /\ UNCHANGED <<pc, df, file_name, df_filt, hard_rejects, soft_rejects,
                   unq_hard_rejects, unq_soft_rejects, hard_rej_df,
                   soft_rej_df, clean_up, run, first, again, permuted, fault,
                   other>>

\* the list is exhausted
EndLoop ==
    /\ dispatch.pc = "for"
    /\ dispatch.i > Len(dispatch.s3_files)
    /\ dispatch' = [dispatch EXCEPT !.pc = "end"]
    /\ UNCHANGED <<pc, df, file_name, df_filt, hard_rejects, soft_rejects,
                   unq_hard_rejects, unq_soft_rejects, hard_rej_df,
                   soft_rej_df, clean_up, run, first, again, permuted, fault,
                   other>>

NextDispatch ==
    \/ Invoke
    \/ TestStatus
    \/ EndLoop

SpecDispatch == InitDispatch /\ [][NextDispatch]_vars

(***************************************************************************)
(* Properties                                                              *)
(***************************************************************************)

\* C1: once the reports are generated, every row identifier of the loaded
\* table is in exactly one of the filtered (clean) table and the hard-reject
\* report, and the clean table written out has the rows of the filtered one.
C1_Partition ==
    /\ pc \in {"reported", "done"} =>
           \A r \in IndexSet(df) :
               ~((r \in IndexSet(df_filt)) <=> (r \in Range(hard_rej_df.index)))
    /\ pc = "done" => clean_up.index = df_filt.index

\* C1 witness: reports generated, with a row on each side of the partition
C1_Witness ==
    /\ pc = "reported"
    /\ hard_rej_df.index # <<>>
    /\ df_filt.index # <<>>

\* C2: after process_soft_rejects, for every optional field F and surviving
\* row R the shadow column F_orig is non-null at R iff R is in
\* soft_rejects[F], the clean column F then holds no value at R, and a
\* shadow column exists only for a field with a non-empty reject set.
C2_ShadowInvariant ==
    pc \in {"soft", "analyzed", "reported", "done"} =>
        \A i \in 1..Len(nullable_fields) :
            LET F == nullable_fields[i].field
            IN  /\ \A r \in IndexSet(df_filt) :
                       /\ NotNull(Cell(df_filt, r, OrigName(F)))
                              <=> r \in RejectIds(soft_rejects, F)
                       /\ r \in RejectIds(soft_rejects, F)
                              => IsNull(Cell(df_filt, r, F))
                /\ HasCol(df_filt, OrigName(F))
                       => RejectIds(soft_rejects, F) # {}

\* C2 witness: a field that was soft-rejected at one surviving row and not
\* at another
C2_Witness ==
    /\ pc = "soft"
    /\ \E i \in 1..Len(nullable_fields) :
           \E r1, r2 \in IndexSet(df_filt) :
               /\ r1 \in RejectIds(soft_rejects, nullable_fields[i].field)
               /\ r2 \notin RejectIds(soft_rejects, nullable_fields[i].field)

\* C3: the row identifiers of the hard-reject report are the union of the
\* sets of the hard-reject record, those of the soft-reject report the union
\* of the sets of the soft-reject record, and no identifier is listed twice
\* in a report.
C3_ExactlyOnce ==
    pc \in {"reported", "done"} =>
        /\ Range(hard_rej_df.index) = AllRejectIds(hard_rejects)
        /\ Range(soft_rej_df.index) = AllRejectIds(soft_rejects)
        /\ \A i, j \in 1..Len(hard_rej_df.index) :
               hard_rej_df.index[i] = hard_rej_df.index[j] => i = j
        /\ \A i, j \in 1..Len(soft_rej_df.index) :
               soft_rej_df.index[i] = soft_rej_df.index[j] => i = j

\* C3 witness: a report row that failed two fields
C3_Witness ==
    /\ pc = "reported"
    /\ \/ \E r \in Range(hard_rej_df.index) : Len(hard_rej_df.cols[r]) >= 2
       \/ \E r \in Range(soft_rej_df.index) : Len(soft_rej_df.cols[r]) >= 2

\* C4: a row whose id is null or not a string of digits is not in the
\* filtered table, nor in the clean table written out, and is recorded in
\* hard_rejects under id, whatever its other fields hold.
C4_MandatoryIdExclusion ==
    pc # "loaded" =>
        \A r \in IndexSet(df) :
            LET v == df.data[r]["id"]
            IN  (IsNull(v) \/ \E i \in 1..Len(v) : v[i] \notin Digits) =>
                    /\ r \notin IndexSet(df_filt)
                    /\ r \notin IndexSet(clean_up)
                    /\ r \in RejectIds(hard_rejects, "id")

\* C4 witness: a row with a non-digit id whose other cells are all valid,
\* after the hard-reject phase
C4_Witness ==
    /\ pc = "hard"
    /\ \E r \in IndexSet(df) :
           /\ df.data[r]["id"] = <<"1", "a">>
           /\ \A c \in Range(keep_cols) \ {"id"} : df.data[r][c] = BaseRow[c]

\* C5: process_hard_rejects applied to the filtered table it returned
\* removes no row and records no reject.
C5_HardRejectIdempotent ==
    pc = "hard_again" =>
        /\ again.df_filt.index = df_filt.index
        /\ AllRejectIds(again.hard_rejects) = {}

\* C5 witness: the second application is done on a table the first one
\* removed a row from and left a row in
C5_Witness ==
    /\ pc = "hard_again"
    /\ df_filt.index # <<>>
    /\ Len(df_filt.index) < Len(df.index)

C7_RejectsAgainstUnfiltered ==
    pc = "hard" =>
        /\ RejectIds(hard_rejects, "id") =
               {r \in IndexSet(df) : id_val(df.data[r]["id"]) # "True"}
        /\ RejectIds(hard_rejects, "case_number") =
               {r \in IndexSet(df) :
                   case_number_val(df.data[r]["case_number"]) # "True"}
        /\ RejectIds(hard_rejects, "date") =
               {r \in IndexSet(df) :
                   \/ IsNull(df.data[r]["date"])
                   \/ df.data[r]["date"] \in nonnull_fields[3].rule.other_nulls
                   \/ IsNull(ToDatetime(df.data[r]["date"]))}
        /\ df_filt.index =
               SelectSeq(df.index, LAMBDA r : r \notin AllRejectIds(hard_rejects))

\* C7 witness: a row recorded under two mandatory fields
C7_Witness ==
    /\ pc = "hard"
    /\ \E r \in IndexSet(df) :
           /\ r \in RejectIds(hard_rejects, "id")
           /\ r \in RejectIds(hard_rejects, "case_number")

\* C8: after the soft-reject phase a zip_codes value of four digits is held
\* as "0" followed by the value, a value of five digits is held unchanged,
\* and a value of three digits is null, recorded in soft_rejects under
\* zip_codes and kept in zip_codes_orig.
C8_ZipNormalization ==
    pc \in {"soft", "analyzed", "reported", "done"} =>
        \A r \in IndexSet(df_filt) :
            LET z == df.data[r]["zip_codes"]
                allDigits == NotNull(z) /\ \A i \in 1..Len(z) : z[i] \in Digits
            IN  /\ (allDigits /\ Len(z) = 4) =>
                       Cell(df_filt, r, "zip_codes") = <<"0">> \o z
                /\ (allDigits /\ Len(z) = 5) =>
                       Cell(df_filt, r, "zip_codes") = z
                /\ (allDigits /\ Len(z) = 3) =>
                       /\ IsNull(Cell(df_filt, r, "zip_codes"))
                       /\ r \in RejectIds(soft_rejects, "zip_codes")
                       /\ Cell(df_filt, r, "zip_codes_orig") = z

\* C8 witness: "6060" was padded to "06060" at one row and "606" was
\* rejected at another
C8_Witness ==
    /\ pc = "soft"
    /\ \E r1, r2 \in IndexSet(df_filt) :
           /\ df.data[r1]["zip_codes"] = <<"6", "0", "6", "0">>
           /\ Cell(df_filt, r1, "zip_codes") = <<"0", "6", "0", "6", "0">>
           /\ df.data[r2]["zip_codes"] = <<"6", "0", "6">>

\* C9: for every surviving row whose location the location pattern accepts,
\* latitude and longitude are the two numbers of the location, in that
\* order ("(41.88, -87.62)" gives "41.88" and "-87.62"), and neither the
\* table nor the clean table written out has a location column.
C9_CoordinateDecomposition ==
    pc \in {"soft", "analyzed", "reported", "done"} =>
        /\ \A r \in IndexSet(df_filt) :
               LET loc == df.data[r]["location"]
                   lat == Cell(df_filt, r, "latitude")
                   lon == Cell(df_filt, r, "longitude")
               IN  /\ (NotNull(loc) /\ MatchLocation(loc)) =>
                          /\ NotNull(lat) /\ NotNull(lon)
                          /\ lat[1] # "(" /\ lon[Len(lon)] # ")"
                          /\ loc \in {<<"(">> \o lat \o <<",", " ">> \o lon
                                          \o <<")">>,
                                      <<"(">> \o lat \o <<",">> \o lon
                                          \o <<")">>}
                   /\ loc = <<"(", "4", "1", ".", "8", "8", ",", " ",
                              "-", "8", "7", ".", "6", "2", ")">> =>
                          /\ lat = <<"4", "1", ".", "8", "8">>
                          /\ lon = <<"-", "8", "7", ".", "6", "2">>
        /\ ~HasCol(df_filt, "location")
        /\ pc = "done" => ~HasCol(clean_up, "location")

\* C9 witness: a surviving row with location "(1.5,-2.25)" decomposed
C9_Witness ==
    /\ pc = "soft"
    /\ \E r \in IndexSet(df_filt) :
           /\ df.data[r]["location"] =
                  <<"(", "1", ".", "5", ",", "-", "2", ".", "2", "5", ")">>
           /\ Cell(df_filt, r, "latitude") = <<"1", ".", "5">>
           /\ Cell(df_filt, r, "longitude") = <<"-", "2", ".", "2", "5">>

\* C10: a row passes the case_number rule iff its case_number is not null
\* and its first two characters are letters of either case; "HY123456"
\* passes, "123456" fails; a failing row is recorded in hard_rejects under
\* case_number and is not in the filtered table.
C10_CaseNumberRule ==
    pc = "hard" =>
        \A r \in IndexSet(df) :
            LET c == df.data[r]["case_number"]
                twoLetters == /\ NotNull(c)
                              /\ Len(c) >= 2
                              /\ c[1] \in Letters
                              /\ c[2] \in Letters
                passes == r \notin RejectIds(hard_rejects, "case_number")
            IN  /\ passes <=> twoLetters
                /\ ~passes => r \notin IndexSet(df_filt)
                /\ c = <<"H", "Y", "1", "2", "3", "4", "5", "6">> => passes
                /\ c = <<"1", "2", "3", "4", "5", "6">> => ~passes

\* C10 witness: one row with "HY123456" kept and one with "123456" removed
C10_Witness ==
    /\ pc = "hard"
    /\ \E r1, r2 \in IndexSet(df) :
           /\ df.data[r1]["case_number"] =
                  <<"H", "Y", "1", "2", "3", "4", "5", "6">>
           /\ r1 \in IndexSet(df_filt)
           /\ df.data[r2]["case_number"] = <<"1", "2", "3", "4", "5", "6">>
           /\ r2 \in RejectIds(hard_rejects, "case_number")
           /\ r2 \notin IndexSet(df_filt)

\* C11: every row of the soft-reject report lists, each once, exactly the
\* fields F with the row in soft_rejects[F], and holds a non-null value in
\* the shadow column of each listed field; a surviving row with an invalid
\* district and an invalid ward is one report row that lists both columns
\* and holds both original values in district_orig and ward_orig.
C11_SoftRejectProvenance ==
    pc \in {"reported", "done"} =>
        /\ \A r \in Range(soft_rej_df.index) :
               LET listed == soft_rej_df.cols[r]
               IN  /\ Range(listed) =
                          {F \in RejectKeys(soft_rejects) :
                              r \in RejectIds(soft_rejects, F)}
                   /\ \A i, j \in 1..Len(listed) : listed[i] = listed[j] => i = j
                   /\ \A i \in 1..Len(listed) :
                          /\ OrigName(listed[i]) \in DOMAIN soft_rej_df.data[r]
                          /\ NotNull(soft_rej_df.data[r][OrigName(listed[i])])
        /\ \A r \in IndexSet(df_filt) :
               LET d == df.data[r]["district"]
                   w == df.data[r]["ward"]
               IN  (NotNull(d) /\ ~IsDigit(d) /\ NotNull(w) /\ ~IsDigit(w)) =>
                       /\ Cardinality({i \in 1..Len(soft_rej_df.index) :
                                          soft_rej_df.index[i] = r}) = 1
                       /\ {"district", "ward"} \subseteq Range(soft_rej_df.cols[r])
                       /\ soft_rej_df.data[r]["district_orig"] = d
                       /\ soft_rej_df.data[r]["ward_orig"] = w

\* C11 witness: a report row that lists district and ward, both invalid in
\* the loaded row
C11_Witness ==
    /\ pc = "reported"
    /\ \E r \in Range(soft_rej_df.index) :
           /\ soft_rej_df.cols[r] = <<"district", "ward">>
           /\ df.data[r]["district"] = <<"x">>
           /\ df.data[r]["ward"] = <<"w", "2">>

\* C12: the step of the soft-reject phase leaves the row identifiers of the
\* table, and their order, as they were.
C12_SoftKeepsRows ==
    [][(pc = "hard" /\ pc' = "soft") => df_filt'.index = df_filt.index]_vars

\* C12 witness: the soft-reject phase is over on a table in which two fields
\* failed
C12_Witness ==
    /\ pc = "soft"
    /\ df_filt.index # <<>>
    /\ Cardinality({F \in RejectKeys(soft_rejects) :
                       RejectIds(soft_rejects, F) # {}}) >= 2

\* C13: run with the mandatory fields in any order, the hard-reject phase
\* gives the reject sets and the filtered table it gives in the written
\* order.
C13_HardOrderIndependent ==
    pc = "hard_order" =>
        /\ RejectKeys(permuted.rejects) = RejectKeys(hard_rejects)
        /\ \A F \in RejectKeys(hard_rejects) :
               RejectIds(permuted.rejects, F) = RejectIds(hard_rejects, F)
        /\ permuted.df_filt = df_filt

\* C13 witness: the phase was run with date first and id last on a chunk in
\* which two mandatory fields reject different rows
C13_Witness ==
    /\ pc = "hard_order"
    /\ nonnull_fields[permuted.order[1]].field = "date"
    /\ nonnull_fields[permuted.order[3]].field = "id"
    /\ \E F, G \in RejectKeys(hard_rejects) :
           /\ RejectIds(hard_rejects, F) # {}
           /\ RejectIds(hard_rejects, G) # {}
           /\ RejectIds(hard_rejects, F) # RejectIds(hard_rejects, G)

\* C14: run with two neighbouring optional fields exchanged, with the
\* optional fields in reverse order, or with the first one moved to the end,
\* the soft-reject phase gives the reject sets and the table contents (rows,
\* columns and cells, the shadow and derived columns included) it gives in
\* the written order.
C14_SoftOrderIndependent ==
    pc = "soft_order" =>
        /\ RejectKeys(permuted.rejects) = RejectKeys(soft_rejects)
        /\ \A F \in RejectKeys(soft_rejects) :
               RejectIds(permuted.rejects, F) = RejectIds(soft_rejects, F)
        /\ permuted.df_filt.index = df_filt.index
        /\ Range(permuted.df_filt.columns) = Range(df_filt.columns)
        /\ permuted.df_filt.data = df_filt.data

\* C14 witness: the phase was run in reverse order on a chunk in which two
\* optional fields failed
C14_Witness ==
    /\ pc = "soft_order"
    /\ permuted.order[1] = Len(nullable_fields)
    /\ df_filt.index # <<>>
    /\ Cardinality({F \in RejectKeys(soft_rejects) :
                       RejectIds(soft_rejects, F) # {}}) >= 2

C16_MandatoryDate ==
    pc # "loaded" =>
        \A r \in IndexSet(df) :
            LET d == df.data[r]["date"]
                fails == \/ IsNull(d)
                         \/ d = <<"0", "0", "0", "0", "-", "0", "0", "-",
                                  "0", "0">>
                         \/ d = <<"1", "3", "/", "4", "5", "/", "2", "0",
                                  "1", "9">>
                         \/ ~IsDateString(d)
            IN  /\ fails =>
                       /\ r \in RejectIds(hard_rejects, "date")
                       /\ r \notin IndexSet(df_filt)
                       /\ r \notin IndexSet(clean_up)
                /\ ~fails => r \notin RejectIds(hard_rejects, "date")

\* C16 witness: the hard-reject phase is over on a chunk with a null date in
\* one row and the date "0000-00-00" in another
C16_Witness ==
    /\ pc = "hard"
    /\ \E r1, r2 \in IndexSet(df) :
           /\ IsNull(df.data[r1]["date"])
           /\ df.data[r2]["date"] =
                  <<"0", "0", "0", "0", "-", "0", "0", "-", "0", "0">>

\* C17: no step changes the loaded table, and every row of the hard-reject
\* report holds the cells the row was loaded with, under the loaded columns
\* (the date as the string it was, the sentinel included), with the list of
\* the mandatory fields that reject the row and the name of the chunk's file.
C17_HardReportOriginal ==
    /\ [][df' = df]_vars
    /\ [](pc \in {"reported", "done"} =>
            /\ hard_rej_df.columns = keep_cols \o <<"cols", "file_name">>
            /\ hard_rej_df.file_name = file_name
            /\ \A r \in Range(hard_rej_df.index) :
                   /\ hard_rej_df.data[r] = df.data[r]
                   /\ DOMAIN hard_rej_df.data[r] = Range(keep_cols)
                   /\ ~IsDatetime(hard_rej_df.data[r]["date"])
                   /\ r \in RejectIds(hard_rejects, "date") =>
                          \/ IsNull(hard_rej_df.data[r]["date"])
                          \/ ~IsDateString(hard_rej_df.data[r]["date"])
                   /\ Range(hard_rej_df.cols[r]) =
                          {F \in RejectKeys(hard_rejects) :
                              r \in RejectIds(hard_rejects, F)})

\* C17 witness: a report row that holds the date "0000-00-00" and lists date
C17_Witness ==
    /\ pc = "reported"
    /\ \E r \in Range(hard_rej_df.index) :
           /\ hard_rej_df.data[r]["date"] =
                  <<"0", "0", "0", "0", "-", "0", "0", "-", "0", "0">>
           /\ hard_rej_df.cols[r] = <<"date">>

C19_NonInterference ==
    /\ pc = "done" =>
           RunAlone(df, file_name) =
               [hard_rejects |-> hard_rejects, soft_rejects |-> soft_rejects,
                hard_rej_df |-> hard_rej_df, soft_rej_df |-> soft_rej_df,
                clean_up |-> clean_up]
    /\ other.pc = "done" =>
           RunAlone(other.df, other.file_name) =
               [hard_rejects |-> other.hard_rejects,
                soft_rejects |-> other.soft_rejects,
                hard_rej_df |-> other.hard_rej_df,
                soft_rej_df |-> other.soft_rej_df,
                clean_up |-> other.clean_up]

\* C19 witness: both invocations are done, each with a hard reject and a
\* soft reject, the first having started after the second had recorded its
\* hard rejects
C19_Witness ==
    /\ pc = "done" /\ other.pc = "done"
    /\ AllRejectIds(hard_rejects) # {} /\ AllRejectIds(soft_rejects) # {}
    /\ AllRejectIds(other.hard_rejects) # {}
    /\ AllRejectIds(other.soft_rejects) # {}
    /\ AllRejectIds(hard_rejects) # AllRejectIds(other.hard_rejects)

\* C20: after the soft-reject phase, at every surviving row, latitude or
\* longitude holds a value only if location was loaded non-null, matches the
\* location pattern and was not soft-rejected, and house_num or street_addr
\* holds a value only if the same is true of block and the block pattern.
C20_GeneratorNulls ==
    pc \in {"soft", "analyzed", "reported", "done"} =>
        \A r \in IndexSet(df_filt) :
            /\ (\/ NotNull(Cell(df_filt, r, "latitude"))
                \/ NotNull(Cell(df_filt, r, "longitude"))) =>
                   /\ NotNull(df.data[r]["location"])
                   /\ MatchLocation(df.data[r]["location"])
                   /\ r \notin RejectIds(soft_rejects, "location")
            /\ (\/ NotNull(Cell(df_filt, r, "house_num"))
                \/ NotNull(Cell(df_filt, r, "street_addr"))) =>
                   /\ NotNull(df.data[r]["block"])
                   /\ MatchBlock(df.data[r]["block"])
                   /\ r \notin RejectIds(soft_rejects, "block")

\* C20 witness: one surviving row with a rejected block and a null location,
\* its four derived cells null, next to a row whose derived cells are filled
C20_Witness ==
    /\ pc = "soft"
    /\ \E r1, r2 \in IndexSet(df_filt) :
           /\ r1 \in RejectIds(soft_rejects, "block")
           /\ IsNull(df.data[r1]["location"])
           /\ IsNull(Cell(df_filt, r1, "house_num"))
           /\ IsNull(Cell(df_filt, r1, "latitude"))
           /\ NotNull(Cell(df_filt, r2, "house_num"))
           /\ NotNull(Cell(df_filt, r2, "latitude"))

\* C21: every nulling is recorded: for every optional field F and surviving
\* row R, if the value of F at R was not null when the soft-reject phase
\* started and is null after it, then R is in soft_rejects[F] and F_orig at
\* R holds the original value; a zip_codes value that passes the pattern
\* with a length other than 4 or 5 included.
C21_NullingRecorded ==
    pc \in {"soft", "analyzed", "reported", "done"} =>
        \A r \in IndexSet(df_filt) :
            \A i \in 1..Len(nullable_fields) :
                LET F == nullable_fields[i].field
                IN  (/\ HasCol(df_filt, F)
                     /\ NotNull(df.data[r][F])
                     /\ IsNull(Cell(df_filt, r, F))) =>
                        /\ r \in RejectIds(soft_rejects, F)
                        /\ HasCol(df_filt, OrigName(F))
                        /\ Cell(df_filt, r, OrigName(F)) = df.data[r][F]

\* C22: hard and soft rejects are disjoint: every row identifier of the
\* soft-reject record, and of the soft-reject report, is a row of the table
\* left by the hard filter, and no row identifier is in both the hard-reject
\* report and the soft-reject report.
C22_HardSoftDisjoint ==
    /\ pc \in {"soft", "analyzed", "reported", "done"} =>
           /\ AllRejectIds(soft_rejects) \subseteq IndexSet(df_filt)
           /\ AllRejectIds(soft_rejects) \cap AllRejectIds(hard_rejects) = {}
    /\ pc \in {"reported", "done"} =>
           /\ Range(soft_rej_df.index) \subseteq IndexSet(df_filt)
           /\ Range(soft_rej_df.index) \cap Range(hard_rej_df.index) = {}

\* C22 witness: the reports are generated and a row of the hard-reject
\* report has a zip_codes value that the soft-reject phase would reject
C22_Witness ==
    /\ pc = "reported"
    /\ \E r \in Range(hard_rej_df.index) :
           /\ NotNull(df.data[r]["zip_codes"])
           /\ ~MatchZipCodes(df.data[r]["zip_codes"])
           /\ r \notin Range(soft_rej_df.index)

\* C23: when the dispatch cell has ended, the files sent to the Lambda
\* function are, once each and in list order, the files of s3_files up to
\* and including the first whose invocation answered with a status other
\* than 202: all of them when every answer was 202.
C23_DispatchPrefix ==
    dispatch.pc \in {"end", "break", "NameError"} =>
        LET n == Len(dispatch.statuses)
        IN  /\ n <= Len(dispatch.s3_files)
            /\ dispatch.payloads =
                   [k \in 1..n |-> Payload(dispatch.s3_files[k][2])]
            /\ \A k \in 1..(n - 1) : dispatch.statuses[k] = 202
            /\ \/ n = Len(dispatch.s3_files)
               \/ n > 0 /\ dispatch.statuses[n] # 202

====
